---- MODULE Spec2Model ----
(***************************************************************************)
(* Model of app.py, the Streamlit dashboard of the CSD efficacy predictor. *)
(*                                                                         *)
(* One Streamlit process serves one browser session.  Every interaction    *)
(* (page open, a number_input edit, the predict button, a file upload or   *)
(* its removal) reruns the whole script top to bottom; an action of this   *)
(* module is one such rerun.  The state that outlives a rerun is the       *)
(* st.cache_resource entry of load_model and the widget values.            *)
(*                                                                         *)
(* Units.  A probability p is the integer p * ProbDen.  A form field or a  *)
(* table cell is an integer count of the widget's step (Length 0.1 cm,     *)
(* RMT 0.01 cm, Pre_Hb 1 g/L, Pre_Alb 1 g/L, Post_WBC 0.1, BMI 0.1).       *)
(***************************************************************************)
EXTENDS Integers, Sequences, FiniteSets, TLC

VARIABLES artifact, cache, loads, form, uploaded, view

vars == <<artifact, cache, loads, form, uploaded, view>>

(* ------------------------------ bounds --------------------------------- *)

\* probabilities are the multiples of 1 / (100 * ProbGrain)
ProbGrain == 1
\* an uploaded table has 1 .. MaxRows data rows
MaxRows == 2
\* executions of load_model's body that are counted
MaxLoads == 2

(* ---------------------------- constants -------------------------------- *)

AxisMax == 100
ProbDen == AxisMax * ProbGrain

RequiredCols == <<"Length", "RMT", "Pre_Hb", "Pre_Alb", "Post_WBC", "BMI">>
PredCol == "Pred_Prob"

FieldMin == <<0, 0, 50, 20, 10, 100>>
FieldMax == <<50, 500, 200, 60, 300, 600>>
FieldDefault == <<8, 30, 115, 40, 55, 230>>

DummyP0Pct == 20
DummyP1Pct == 45

BannerLowCut == 3
BannerHighCut == 7
GaugeLowCut == 3
GaugeHighCut == 7

Range(s) == {s[i] : i \in 1..Len(s)}

(* ----------------------------- classifier ------------------------------ *)

DummyModel == [kind |-> "dummy", bias |-> 0]
RealModel(b) == [kind |-> "real", bias |-> b]

\* the positive-class probability an unpickled classifier gives one row of
\* the six features, taken in the training order
Score(m, row) ==
    (m.bias + row[1] + 2 * row[2] + 4 * row[3] + 8 * row[4]
            + 16 * row[5] + 32 * row[6]) % (ProbDen + 1)

\* model.predict_proba(X): a matrix with one <<P(class 0), P(class 1)>> row
\* per input row; the stand-in returns one fixed row whatever X is
PredictProba(m, X) ==
    IF m.kind = "dummy"
    THEN << <<DummyP0Pct * ProbGrain, DummyP1Pct * ProbGrain>> >>
    ELSE [i \in 1..Len(X) |-> <<ProbDen - Score(m, X[i]), Score(m, X[i])>>]

(* ------------------------------ load_model ----------------------------- *)

EmptyCache == [full |-> FALSE, obj |-> DummyModel, msgs |-> {}]

\* the body of load_model: joblib.load, with FileNotFoundError handled
LoadModelBody ==
    CASE artifact.state = "ok" ->
            [raised |-> FALSE, obj |-> RealModel(artifact.bias), msgs |-> {}]
      [] artifact.state = "missing" ->
            [raised |-> FALSE, obj |-> DummyModel, msgs |-> {"model_missing"}]
      [] OTHER ->
            [raised |-> TRUE, obj |-> DummyModel, msgs |-> {}]

\* fault: a cache hit returns the object and renders nothing
ReplayNone(c) == {}

\* st.cache_resource replays, on a hit, the elements the body rendered
Replay(c) == c.msgs

\* load_model() as the script calls it, through st.cache_resource
LoadModel(c) ==
    IF c.full
    THEN [raised |-> FALSE, obj |-> c.obj, msgs |-> Replay(c), hit |-> TRUE,
          cache |-> c]
    ELSE LET r == LoadModelBody
         IN  [raised |-> r.raised, obj |-> r.obj, msgs |-> r.msgs, hit |-> FALSE,
              cache |-> IF r.raised THEN c
                        ELSE [full |-> TRUE, obj |-> r.obj, msgs |-> r.msgs]]

(* ---------------------------- Risk presenter --------------------------- *)

Steps ==
    << [lo |-> 0,  hi |-> 30,  tier |-> "green"],
       [lo |-> 30, hi |-> 70,  tier |-> "yellow"],
       [lo |-> 70, hi |-> 100, tier |-> "red"] >>

\* fault: the colour cutoffs compared with <= for <
PlotGaugeLoose(prob) ==
    [color |-> IF prob * 10 <= GaugeLowCut * ProbDen THEN "green"
               ELSE IF prob * 10 <= GaugeHighCut * ProbDen THEN "yellow"
               ELSE "red",
     value |-> prob * AxisMax,
     steps |-> Steps,
     threshold |-> prob * AxisMax]

\* plot_gauge(prob): bar colour, needle value prob * 100 (kept as the
\* numerator over ProbDen), background bands, threshold marker
PlotGauge(prob) ==
    [color |-> IF prob * 10 < GaugeLowCut * ProbDen THEN "green"
               ELSE IF prob * 10 < GaugeHighCut * ProbDen THEN "yellow"
               ELSE "red",
     value |-> prob * AxisMax,
     steps |-> Steps,
     threshold |-> prob * AxisMax]

\* fault: the banner cutoffs compared with <= for <
BannerLoose(prob) ==
    IF prob * 10 <= BannerLowCut * ProbDen THEN "low"
    ELSE IF prob * 10 <= BannerHighCut * ProbDen THEN "medium"
    ELSE "high"

\* the st.success / st.warning / st.error chain of tab1
Banner(prob) ==
    IF prob * 10 < BannerLowCut * ProbDen THEN "low"
    ELSE IF prob * 10 < BannerHighCut * ProbDen THEN "medium"
    ELSE "high"

(* ------------------------------- tab1 ---------------------------------- *)

NoSingle == [shown |-> FALSE, prob |-> 0, gauge |-> PlotGauge(0), banner |-> ""]

\* input_df: one row, the six widgets in the column order of line 111
InputDf(f) == << f >>

\* fault: column 0, the negative class, read for column 1
SinglePredictCol0(m, f) == PredictProba(m, InputDf(f))[1][1]

\* float(model.predict_proba(input_df)[0, 1])
SinglePredict(m, f) == PredictProba(m, InputDf(f))[1][2]

SingleCase(m, f) ==
    LET prob == SinglePredict(m, f)
    IN  [shown |-> TRUE, prob |-> prob, gauge |-> PlotGauge(prob),
         banner |-> Banner(prob)]

(* ------------------------------- tab2 ---------------------------------- *)

EmptyTable == [cols |-> <<>>, rows |-> <<>>]
NoUpload == [present |-> FALSE, table |-> EmptyTable]
NoStats == [count |-> 0, min |-> 0, max |-> 0]
NoCsv == [bom |-> FALSE, header |-> <<>>, lines |-> <<>>]

NoBatch ==
    [kind |-> "none", missing |-> {}, called |-> FALSE, arg |-> <<>>,
     table |-> EmptyTable, count |-> 0, stats |-> NoStats,
     offered |-> FALSE, csv |-> NoCsv]

ColIndex(cols, name) == CHOOSE j \in 1..Len(cols) : cols[j] = name

\* fault: only one of the absent columns is reported
MissOne(t) ==
    LET d == Range(RequiredCols) \ Range(t.cols)
    IN  IF d = {} THEN {} ELSE {CHOOSE c \in d : TRUE}

\* required_cols - set(batch.columns)
Miss(t) == Range(RequiredCols) \ Range(t.cols)

\* batch[list(input_df.columns)]: the named columns, in the order named
Select(t, names) ==
    [i \in 1..Len(t.rows) |->
        [k \in 1..Len(names) |-> t.rows[i][ColIndex(t.cols, names[k])]]]

\* batch["Pred_Prob"] = vec: pandas replaces a column of that name in place,
\* appends one otherwise, and raises ValueError on a length mismatch
SetColumn(t, name, vec) ==
    IF Len(vec) # Len(t.rows)
    THEN [raised |-> TRUE, table |-> t]
    ELSE IF name \in Range(t.cols)
    THEN [raised |-> FALSE,
          table |-> [cols |-> t.cols,
                     rows |-> [i \in 1..Len(t.rows) |->
                                 [t.rows[i] EXCEPT ![ColIndex(t.cols, name)] = vec[i]]]]]
    ELSE [raised |-> FALSE,
          table |-> [cols |-> Append(t.cols, name),
                     rows |-> [i \in 1..Len(t.rows) |-> Append(t.rows[i], vec[i])]]]

Column(t, name) == [i \in 1..Len(t.rows) |-> t.rows[i][ColIndex(t.cols, name)]]

\* batch["Pred_Prob"].describe(), its count / min / max
Describe(vec) ==
    [count |-> Len(vec),
     min |-> CHOOSE x \in Range(vec) : \A y \in Range(vec) : x <= y,
     max |-> CHOOSE x \in Range(vec) : \A y \in Range(vec) : x >= y]

\* batch.to_csv(index=False).encode('utf-8-sig')
ToCsv(t) == [bom |-> TRUE, header |-> t.cols, lines |-> t.rows]

\* the body of `if uploaded:` of tab2; table is the DataFrame `batch` as the
\* run leaves it, arg what predict_proba was handed
Batch(m, t) ==
    LET miss == Miss(t)
    IN  IF miss # {}
        THEN [NoBatch EXCEPT !.kind = "error", !.missing = miss, !.table = t]
        ELSE LET X == Select(t, RequiredCols)
                 P == PredictProba(m, X)
                 vec == [i \in 1..Len(P) |-> P[i][2]]
                 s == SetColumn(t, PredCol, vec)
             IN  IF s.raised
                 THEN [NoBatch EXCEPT !.kind = "raise", !.called = TRUE, !.arg = X,
                                      !.table = t]
                 ELSE [NoBatch EXCEPT
                          !.kind = "ok", !.called = TRUE, !.arg = X,
                          !.table = s.table,
                          !.count = Len(s.table.rows),
                          !.stats = Describe(Column(s.table, PredCol)),
                          !.offered = TRUE,
                          !.csv = ToCsv(s.table)]

(* --------------------------- one script run ---------------------------- *)

BlankView ==
    [ran |-> FALSE, clicked |-> FALSE, hit |-> FALSE, exception |-> "none",
     loadError |-> FALSE, model |-> DummyModel, single |-> NoSingle,
     batch |-> NoBatch, footer |-> FALSE]

\* app.py top to bottom, with the widget values f, u and the button state btn
Render(c, f, u, btn) ==
    LET l == LoadModel(c)
    IN  IF l.raised
        THEN [BlankView EXCEPT !.ran = TRUE, !.clicked = btn, !.exception = "load"]
        ELSE LET s == IF btn THEN SingleCase(l.obj, f) ELSE NoSingle
                 b == IF u.present THEN Batch(l.obj, u.table) ELSE NoBatch
             IN  [ran |-> TRUE, clicked |-> btn, hit |-> l.hit,
                  exception |-> IF b.kind = "raise" THEN "batch" ELSE "none",
                  loadError |-> "model_missing" \in l.msgs,
                  model |-> l.obj, single |-> s, batch |-> b,
                  footer |-> b.kind # "raise"]

ScriptRun(f, u, btn) ==
    /\ cache.full \/ loads < MaxLoads
    /\ cache' = LoadModel(cache).cache
    /\ loads' = IF cache.full THEN loads ELSE loads + 1
    /\ form' = f
    /\ uploaded' = u
    /\ view' = Render(cache, f, u, btn)
    /\ UNCHANGED artifact

(* ------------------------------- inputs -------------------------------- *)

\* the classifiers lgb_best.pkl may hold
Biases == {b \in 0..ProbDen : b % (ProbDen \div 2) = 0}

\* lgb_best.pkl: absent, unreadable by joblib, or a pickled classifier
Artifacts ==
    {[state |-> "missing", bias |-> 0], [state |-> "corrupt", bias |-> 0]}
        \cup {[state |-> "ok", bias |-> b] : b \in Biases}

\* values a number_input is set to: its default or one step above it,
\* inside the widget's range
FieldChoices(k) ==
    {v \in {FieldDefault[k], FieldDefault[k] + 1} : FieldMin[k] <= v /\ v <= FieldMax[k]}

Reverse(s) == [i \in 1..Len(s) |-> s[Len(s) + 1 - i]]

Layouts ==
    { RequiredCols,
      Reverse(RequiredCols),
      <<"Note">> \o RequiredCols,
      Reverse(RequiredCols) \o <<"Note">>,
      RequiredCols \o <<PredCol>>,
      SubSeq(RequiredCols, 1, 5),
      <<"Note">> \o SubSeq(RequiredCols, 2, 5),
      <<"Note", PredCol>> }

\* the cell of data row i under column name
Cell(i, name) ==
    IF name \in Range(RequiredCols)
    THEN FieldDefault[ColIndex(RequiredCols, name)] + i
    ELSE i

Csv(cols, n) ==
    [cols |-> cols, rows |-> [i \in 1..n |-> [j \in 1..Len(cols) |-> Cell(i, cols[j])]]]

Uploads == {Csv(cols, n) : cols \in Layouts, n \in 1..MaxRows}

(* ------------------------------- actions ------------------------------- *)

Init ==
    /\ artifact \in Artifacts
    /\ cache = EmptyCache
    /\ loads = 0
    /\ form = FieldDefault
    /\ uploaded = NoUpload
    /\ view = BlankView

\* the page is opened or reloaded
Rerun == ScriptRun(form, uploaded, FALSE)

\* a number_input of the sidebar is edited
SetField ==
    \E k \in 1..Len(RequiredCols) : \E v \in FieldChoices(k) :
        /\ v # form[k]
        /\ ScriptRun([form EXCEPT ![k] = v], uploaded, FALSE)

\* the predict button is pressed
ClickPredict == ScriptRun(form, uploaded, TRUE)

\* a CSV file is dropped on the uploader
Upload ==
    \E t \in Uploads :
        /\ uploaded # [present |-> TRUE, table |-> t]
        /\ ScriptRun(form, [present |-> TRUE, table |-> t], FALSE)

\* the uploaded file is removed
ClearUpload ==
    /\ uploaded.present
    /\ ScriptRun(form, NoUpload, FALSE)

Next == Rerun \/ SetField \/ ClickPredict \/ Upload \/ ClearUpload

Spec == Init /\ [][Next]_vars

(* ------------------------------- claims -------------------------------- *)

\* the required columns a table lacks, read off its header name by name
Absent(t) ==
    {RequiredCols[k] : k \in {k \in 1..Len(RequiredCols) :
                                \A j \in 1..Len(t.cols) : t.cols[j] # RequiredCols[k]}}

\* the six feature values of data row i, found by column name
Features(t, i) ==
    [k \in 1..Len(RequiredCols) |->
        t.rows[i][CHOOSE j \in 1..Len(t.cols) : t.cols[j] = RequiredCols[k]]]

\* the run reached the `if uploaded:` block with a file in the uploader
BatchPathRan == view.ran /\ view.exception # "load" /\ uploaded.present

\* C1: a displayed single-case banner is low iff 0 <= p < 0.30, medium iff
\* 0.30 <= p < 0.70 and high iff 0.70 <= p <= 1.0, for a p in [0,1]
C1_BannerTiers ==
    view.single.shown =>
        LET p == view.single.prob
            b == view.single.banner
        IN  /\ 0 <= p /\ p <= ProbDen
            /\ b \in {"low", "medium", "high"}
            /\ (b = "low") <=> (p * 100 < 30 * ProbDen)
            /\ (b = "medium") <=> (30 * ProbDen <= p * 100 /\ p * 100 < 70 * ProbDen)
            /\ (b = "high") <=> (70 * ProbDen <= p * 100)

\* a prediction of exactly 0.30 is on display, under the medium banner
C1_Witness ==
    /\ view.single.shown
    /\ view.single.prob * 100 = 30 * ProbDen
    /\ view.single.banner = "medium"

\* C2: every uploaded table with the six required columns and N rows comes
\* out, whichever classifier is in use, as N rows in order, the original
\* columns in order plus one appended Pred_Prob holding row i's
\* positive-class probability, a value in [0,1]
C2_BatchRoundTrip ==
    (BatchPathRan /\ Absent(uploaded.table) = {}) =>
        LET t == uploaded.table
            a == view.batch.table
        IN  /\ view.batch.kind = "ok"
            /\ Len(a.rows) = Len(t.rows)
            /\ a.cols = t.cols \o <<PredCol>>
            /\ \A i \in 1..Len(a.rows) :
                 LET p == PredictProba(view.model, <<Features(t, i)>>)[1][2]
                 IN  /\ a.rows[i] = t.rows[i] \o <<p>>
                     /\ 0 <= p /\ p <= ProbDen

\* C3: an uploaded table lacking required columns gets an error naming
\* exactly the absent ones; the classifier is not invoked, the table gets no
\* Pred_Prob column, and no statistics and no download are offered
C3_MissingColumnsRejected ==
    (BatchPathRan /\ Absent(uploaded.table) # {}) =>
        /\ view.batch.kind = "error"
        /\ view.batch.missing = Absent(uploaded.table)
        /\ ~view.batch.called
        /\ view.batch.arg = <<>>
        /\ view.batch.table = uploaded.table
        /\ view.batch.stats = NoStats
        /\ view.batch.count = 0
        /\ ~view.batch.offered
        /\ view.batch.csv = NoCsv
        /\ view.exception = "none"

\* a table lacking two required columns has been rejected
C3_Witness ==
    /\ BatchPathRan
    /\ view.batch.kind = "error"
    /\ Cardinality(view.batch.missing) = 2
    /\ view.batch.missing = Absent(uploaded.table)

\* C4: when the artifact cannot be loaded, missing or corrupt, load_model
\* does not raise: the error is shown, the stand-in is in use and the run
\* renders the page
C4_LoadNeverRaises ==
    (view.ran /\ artifact.state # "ok") =>
        /\ view.exception # "load"
        /\ view.loadError
        /\ view.model = DummyModel

\* C5: a run that displays a single-case or batch result of the stand-in
\* also displays the artifact-missing error, cache hit or not
C5_StandInFlagged ==
    (/\ view.ran
     /\ view.model.kind = "dummy"
     /\ view.single.shown \/ view.batch.kind = "ok") => view.loadError

\* a stand-in prediction is on display in a run served from the cache
C5_Witness ==
    /\ view.ran
    /\ view.hit
    /\ view.model.kind = "dummy"
    /\ view.single.shown
    /\ view.loadError

\* the run rejected the upload or a classifier call raised
Failed == view.batch.kind \in {"error", "raise"}

\* C6: the run that follows a failed one processes a pressed predict to a
\* displayed prediction and an uploaded table with the six required columns
\* to a batch result
C6_UsableAfterFailure ==
    [][Failed =>
         /\ view'.ran
         /\ view'.clicked => view'.single.shown
         /\ (uploaded'.present /\ Absent(uploaded'.table) = {})
                => view'.batch.kind = "ok"]_vars

\* C7: the body of load_model runs at most once in the process, and every
\* run that gets past load_model uses the cached object
C7_LoadOnce ==
    /\ loads <= 1
    /\ (view.ran /\ view.exception # "load") => (cache.full /\ view.model = cache.obj)

\* C8: with the stand-in in use a single-case prediction is 0.45, under the
\* medium banner and a yellow gauge, whatever the six inputs
C8_StandInSingle ==
    (view.single.shown /\ view.model.kind = "dummy") =>
        /\ view.single.prob * 100 = 45 * ProbDen
        /\ view.single.banner = "medium"
        /\ view.single.gauge.color = "yellow"

\* the default form has been predicted with the stand-in
C8_Witness ==
    /\ view.single.shown
    /\ view.model.kind = "dummy"
    /\ form = <<8, 30, 115, 40, 55, 230>>
    /\ view.single.prob * 100 = 45 * ProbDen

\* the background band of the gauge the needle value lies in
Band(g) ==
    CHOOSE k \in 1..Len(g.steps) :
        /\ g.steps[k].lo * ProbDen <= g.value
        /\ g.value < g.steps[k].hi * ProbDen \/ k = Len(g.steps)

\* C9: gauge and banner agree: green with low, yellow with medium, red with
\* high; the bar has the colour of the band under the needle, and the band
\* edges 30 and 70 of the 0-100 axis are the cutoffs 0.30 and 0.70
C9_GaugeBannerAgree ==
    view.single.shown =>
        LET g == view.single.gauge
            b == view.single.banner
        IN  /\ (g.color = "green") <=> (b = "low")
            /\ (g.color = "yellow") <=> (b = "medium")
            /\ (g.color = "red") <=> (b = "high")
            /\ g.steps[Band(g)].tier = g.color
            /\ g.value = view.single.prob * 100
            /\ g.steps[1].hi = 30 /\ g.steps[2].lo = 30
            /\ g.steps[2].hi = 70 /\ g.steps[3].lo = 70

\* a prediction of exactly 0.70 is on display, red under the high banner
C9_Witness ==
    /\ view.single.shown
    /\ view.single.prob * 10 = 7 * ProbDen
    /\ view.single.gauge.color = "red"
    /\ view.single.banner = "high"

\* C10: for a table with the six required columns, in any order and with any
\* extras, the classifier gets exactly the six columns in the fixed order,
\* Pred_Prob depends on them alone, and the export carries every extra
\* column unchanged
C10_ExtraColumnsIgnored ==
    (BatchPathRan /\ Absent(uploaded.table) = {}) =>
        LET t == uploaded.table
        IN  /\ view.batch.called
            /\ view.batch.arg = [i \in 1..Len(t.rows) |-> Features(t, i)]
            /\ view.batch.kind = "ok" =>
                 LET e == [cols |-> view.batch.csv.header, rows |-> view.batch.csv.lines]
                 IN  /\ Len(e.rows) = Len(t.rows)
                     /\ \A c \in Range(t.cols) \ Range(RequiredCols) :
                          /\ c \in Range(e.cols)
                          /\ Column(e, c) = Column(t, c)

====
